---- MODULE Spec2Model ----
(***************************************************************************)
(* Model of test_deposit_transaction_integrity(slither) from               *)
(* packages/contracts-bedrock/slither_api_example.py: the lookup of        *)
(* OptimismPortal.depositTransaction, the comparison of its high-level     *)
(* calls with the expected list, and the scan of its CFG nodes for the     *)
(* `if (_isCreation) require(_to == address(0), ...)` pattern.             *)
(***************************************************************************)
EXTENDS Integers, Sequences, FiniteSets, TLC

VARIABLES slither, pc, portal, deposit_function, high_level_calls,
          found_creation_check, node_index, raised, stdout

vars == <<slither, pc, portal, deposit_function, high_level_calls,
          found_creation_check, node_index, raised, stdout>>

\* Longest list of high-level calls, and of CFG nodes, of a function drawn in Init.
MaxCalls == 2
MaxNodes == 2

(***************************************************************************)
(* The analysis model: variables, IR operations, nodes.                    *)
(* Every object carries `id`, its identity: Python's != on two objects     *)
(* that define no __eq__ compares identities.  `holds` is the value a      *)
(* temporary was computed from; the code never reads it.                   *)
(***************************************************************************)
LocalVariable(id, name) == [kind |-> "LocalVariable", id |-> id, name |-> name]
Constant(id, value) == [kind |-> "Constant", id |-> id, value |-> value]
TemporaryVariable(id, holds) == [kind |-> "TemporaryVariable", id |-> id, holds |-> holds]

Condition(value) == [ir |-> "Condition", value |-> value]
TypeConversion(lvalue, variable, type_name) ==
    [ir |-> "TypeConversion", lvalue |-> lvalue, variable |-> variable,
     type |-> [name |-> type_name]]
Binary(lvalue, variable_left, type, variable_right) ==
    [ir |-> "Binary", lvalue |-> lvalue, type |-> type,
     variable_left |-> variable_left, variable_right |-> variable_right]
SolidityCall(full_name, arguments) ==
    [ir |-> "SolidityCall", function |-> [full_name |-> full_name],
     arguments |-> arguments]
Assignment(lvalue, rvalue) == [ir |-> "Assignment", lvalue |-> lvalue, rvalue |-> rvalue]

Node(type, irs, sons) == [type |-> type, irs |-> irs, sons |-> sons]

isinstance(obj, cls) == IF "ir" \in DOMAIN obj THEN obj.ir = cls ELSE obj.kind = cls

\* Temporaries compared by the value they hold instead of by identity.
SameObject_ByValue(a, b) ==
    /\ a.kind = b.kind
    /\ IF a.kind = "TemporaryVariable" THEN a.holds = b.holds ELSE a.id = b.id

\* a != b on analyzer objects: identity (src line 153, 168)
SameObject(a, b) == a.id = b.id

(***************************************************************************)
(* Lines 87-88: the rendering of the calls and the sorted comparison.      *)
(***************************************************************************)
ExpectedCalls == <<"AddressAliasHelper.applyL1ToL2Alias">>

\* "{}.{}".format(c.name, f.name)
Format(c_name, f_name) == c_name \o "." \o f_name

RECURSIVE FormatAll(_)
FormatAll(calls) ==
    IF calls = <<>> THEN <<>>
    ELSE <<Format(Head(calls)[1].name, Head(calls)[2].name)>> \o FormatAll(Tail(calls))

\* Python's order on the strings that occur (code-point order: "a" < "u", "A" < "O").
NameOrder ==
    <<"AddressAliasHelper.applyL1ToL2Alias", "AddressAliasHelper.undoL1ToL2Alias", "Other.helper">>
Rank(s) == CHOOSE i \in 1..Len(NameOrder) : NameOrder[i] = s
StrLess(a, b) == Rank(a) < Rank(b)

RECURSIVE Insert(_, _)
Insert(x, s) ==
    IF s = <<>> THEN <<x>>
    ELSE IF StrLess(Head(s), x) THEN <<Head(s)>> \o Insert(x, Tail(s))
    ELSE <<x>> \o s

RECURSIVE sorted(_)
sorted(s) == IF s = <<>> THEN <<>> ELSE Insert(Head(s), sorted(Tail(s)))

\* The comparison done on sets: a repeated call goes unnoticed.
CallsAsExpected_AsSets(calls) ==
    {calls[i] : i \in 1..Len(calls)} = {ExpectedCalls[i] : i \in 1..Len(ExpectedCalls)}

CallsAsExpected(calls) == sorted(calls) = sorted(ExpectedCalls)

(***************************************************************************)
(* Lines 95-169: the conditions one node has to pass, in the code's order. *)
(* Node.irs is a list in the analyzer (never None), so `irs is None or     *)
(* len(irs) == 0` is the test for the empty list.                          *)
(***************************************************************************)
IsIfNode(node) == node.type = "IF"

HasConditionIR(node) ==
    /\ Len(node.irs) # 0
    /\ isinstance(node.irs[1], "Condition")

\* The name compared without regard to case.
ConditionOnIsCreation_AnyCase(node) ==
    LET condition_value == node.irs[1].value IN
    /\ isinstance(condition_value, "LocalVariable")
    /\ condition_value.name \in {"_isCreation", "_IsCreation", "_iscreation"}

ConditionOnIsCreation(node) ==
    LET condition_value == node.irs[1].value IN
    /\ isinstance(condition_value, "LocalVariable")
    /\ condition_value.name = "_isCreation"

SonsAreRequireAndEndIf(node) ==
    /\ Len(node.sons) = 2
    /\ node.sons[Len(node.sons)].type = "ENDIF"
    /\ node.sons[1].type = "EXPRESSION"

\* The three IRs looked for at the head of a longer list.
HasThreeIRs_AtLeast(require_expression_node) == Len(require_expression_node.irs) >= 3

HasThreeIRs(require_expression_node) == Len(require_expression_node.irs) = 3

ConvertsZeroToAddress(type_conversion_ir) ==
    /\ isinstance(type_conversion_ir, "TypeConversion")
    /\ isinstance(type_conversion_ir.variable, "Constant")
    /\ ~(type_conversion_ir.variable.value # 0 \/ type_conversion_ir.type.name # "address")

\* The comparison looked for with the wrong operator.
IsEqualityBinary_NotEqual(binary_ir) ==
    /\ isinstance(binary_ir, "Binary")
    /\ binary_ir.type = "NOT_EQUAL"

IsEqualityBinary(binary_ir) ==
    /\ isinstance(binary_ir, "Binary")
    /\ binary_ir.type = "EQUAL"

RightIsConvertedZero(binary_ir, type_conversion_ir) ==
    SameObject(binary_ir.variable_right, type_conversion_ir.lvalue)

\* Any local variable taken for _to.
LeftIsTo_AnyLocal(binary_ir) == isinstance(binary_ir.variable_left, "LocalVariable")

LeftIsTo(binary_ir) ==
    LET local_variable == binary_ir.variable_left IN
    /\ isinstance(local_variable, "LocalVariable")
    /\ local_variable.name = "_to"

IsRequireCall(solidity_call_ir) ==
    /\ isinstance(solidity_call_ir, "SolidityCall")
    /\ ~(solidity_call_ir.function.full_name # "require(bool,string)"
         \/ Len(solidity_call_ir.arguments) < 1)

FirstArgumentIsComparison(solidity_call_ir, binary_ir) ==
    SameObject(solidity_call_ir.arguments[1], binary_ir.lvalue)

\* TRUE iff the loop body reaches line 171 for this node.
NodeMatches(node) ==
    /\ IsIfNode(node)
    /\ HasConditionIR(node)
    /\ ConditionOnIsCreation(node)
    /\ SonsAreRequireAndEndIf(node)
    /\ HasThreeIRs(node.sons[1])
    /\ ConvertsZeroToAddress(node.sons[1].irs[1])
    /\ IsEqualityBinary(node.sons[1].irs[2])
    /\ RightIsConvertedZero(node.sons[1].irs[2], node.sons[1].irs[1])
    /\ LeftIsTo(node.sons[1].irs[2])
    /\ IsRequireCall(node.sons[1].irs[3])
    /\ FirstArgumentIsComparison(node.sons[1].irs[3], node.sons[1].irs[2])

(***************************************************************************)
(* The exceptions the function raises and what it prints.                  *)
(***************************************************************************)
NoException == [type |-> "None", args |-> <<>>]
LookupError(msg) == [type |-> "LookupError", args |-> <<msg>>]
ValueError(msg) == [type |-> "ValueError", args |-> <<msg>>]

ContractNotFound == LookupError("Could not find OptimismPortal contract")
FunctionNotFound == LookupError("Could not find OptimismPortal.depositTransaction function")
NewCallAdded == ValueError("OptimismPortal.depositTransaction has had a new high level call added.")
\* The missing check reported with the exception type of the call-set check.
CheckNotFound_AsValueError ==
    ValueError("Could not find the _isCreation if-statement + require check in "
               \o "OptimismPortal.depositTransaction")

CheckNotFound ==
    LookupError("Could not find the _isCreation if-statement + require check in "
                \o "OptimismPortal.depositTransaction")

(***************************************************************************)
(* The analysis models Init draws from.  The objects of the one function   *)
(* body they are cut from:                                                 *)
(***************************************************************************)
v_isCreation == LocalVariable(1, "_isCreation")
v_IsCreation == LocalVariable(2, "_IsCreation")
v_to == LocalVariable(3, "_to")
v_from == LocalVariable(4, "_from")
s_isCreation == [kind |-> "StateVariable", id |-> 5, name |-> "_isCreation"]
s_to == [kind |-> "StateVariable", id |-> 6, name |-> "_to"]
c_zero == Constant(7, 0)
c_one == Constant(8, 1)
c_msg == Constant(9, "OptimismPortal: must send to address(0) when creating a contract")
TMP_0 == TemporaryVariable(10, "address(0)")
TMP_1 == TemporaryVariable(11, "_to == address(0)")
TMP_2 == TemporaryVariable(12, "address(0)")
TMP_3 == TemporaryVariable(13, "_to == address(0)")
TMP_4 == TemporaryVariable(14, "_from")

ir_convert == TypeConversion(TMP_0, c_zero, "address")
ir_compare == Binary(TMP_1, v_to, "EQUAL", TMP_0)
ir_require == SolidityCall("require(bool,string)", <<TMP_1, c_msg>>)
ir_other == Assignment(TMP_4, v_from)

EndIf == Node("ENDIF", <<>>, <<>>)
Expression(irs) == Node("EXPRESSION", irs, <<>>)
If(irs, sons) == Node("IF", irs, sons)
\* if (_isCreation) { <irs> }
Guarded(irs) == If(<<Condition(v_isCreation)>>, <<Expression(irs), EndIf>>)

\* if (_isCreation) require(_to == address(0), "...");
TheCheck == Guarded(<<ir_convert, ir_compare, ir_require>>)

\* Nodes the code accepts.
MatchingNodes ==
    { TheCheck,
      Guarded(<<ir_convert, ir_compare, SolidityCall("require(bool,string)", <<TMP_1>>)>>),
      If(<<Condition(v_isCreation), ir_other>>,
         <<Expression(<<ir_convert, ir_compare, ir_require>>), EndIf>>) }

\* A statement that is no if: address zero = address(0), producing TMP_2.
PlainNode == Expression(<<TypeConversion(TMP_2, c_zero, "address")>>)

\* The check with != in place of ==.
NotEqualCheck == Guarded(<<ir_convert, Binary(TMP_1, v_to, "NOT_EQUAL", TMP_0), ir_require>>)

\* The check with the operands of == exchanged: address(0) == _to.
SwappedCheck == Guarded(<<ir_convert, Binary(TMP_1, TMP_0, "EQUAL", v_to), ir_require>>)

\* The check with one IR more (at each position) or one IR fewer.
WrongLengthChecks ==
    { Guarded(<<ir_other, ir_convert, ir_compare, ir_require>>),
      Guarded(<<ir_convert, ir_other, ir_compare, ir_require>>),
      Guarded(<<ir_convert, ir_compare, ir_other, ir_require>>),
      Guarded(<<ir_convert, ir_compare, ir_require, ir_other>>),
      Guarded(<<ir_compare, ir_require>>),
      Guarded(<<ir_convert, ir_require>>),
      Guarded(<<ir_convert, ir_compare>>) }

\* The check under a node that is no candidate (lines 95-111).
NonCandidates ==
    LET sons == TheCheck.sons IN
    { Node("IFLOOP", TheCheck.irs, sons),
      If(<<>>, sons),
      If(<<ir_other, Condition(v_isCreation)>>, sons),
      If(<<Condition(TMP_4)>>, sons),
      If(<<Condition(s_isCreation)>>, sons),
      If(<<Condition(v_IsCreation)>>, sons) }

\* The check with other children (lines 118-127).
WrongSons ==
    LET require == TheCheck.sons[1] IN
    { If(TheCheck.irs, <<>>),
      If(TheCheck.irs, <<require>>),
      If(TheCheck.irs, <<require, EndIf, EndIf>>),
      If(TheCheck.irs, <<require, require>>),
      If(TheCheck.irs, <<EndIf, require>>),
      If(TheCheck.irs, <<Node("RETURN", require.irs, <<>>), EndIf>>) }

\* The check with one of its three IRs changed (lines 135-169).
WrongIRs ==
    { Guarded(<<Assignment(TMP_0, c_zero), ir_compare, ir_require>>),
      Guarded(<<TypeConversion(TMP_0, v_from, "address"), ir_compare, ir_require>>),
      Guarded(<<TypeConversion(TMP_0, c_one, "address"), ir_compare, ir_require>>),
      Guarded(<<TypeConversion(TMP_0, c_zero, "uint256"), ir_compare, ir_require>>),
      Guarded(<<ir_convert, Assignment(TMP_1, v_to), ir_require>>),
      NotEqualCheck,
      Guarded(<<ir_convert, Binary(TMP_1, v_to, "EQUAL", TMP_2), ir_require>>),
      SwappedCheck,
      Guarded(<<ir_convert, Binary(TMP_1, v_from, "EQUAL", TMP_0), ir_require>>),
      Guarded(<<ir_convert, Binary(TMP_1, s_to, "EQUAL", TMP_0), ir_require>>),
      Guarded(<<ir_convert, ir_compare, Assignment(TMP_4, TMP_1)>>),
      Guarded(<<ir_convert, ir_compare, SolidityCall("assert(bool)", <<TMP_1>>)>>),
      Guarded(<<ir_convert, ir_compare, SolidityCall("require(bool)", <<TMP_1>>)>>),
      Guarded(<<ir_convert, ir_compare, SolidityCall("require(bool,string)", <<>>)>>),
      Guarded(<<ir_convert, ir_compare, SolidityCall("require(bool,string)", <<TMP_3, c_msg>>)>>),
      Guarded(<<ir_convert, ir_compare, SolidityCall("require(bool,string)", <<TMP_0, c_msg>>)>>) }

NodePool ==
    MatchingNodes \cup {PlainNode} \cup WrongLengthChecks \cup NonCandidates
        \cup WrongSons \cup WrongIRs

\* The nodes that may occur any number of times in one function body.
CommonNodes == {TheCheck, PlainNode, NotEqualCheck}

SeqsUpTo(S, n) == UNION {[1..k -> S] : k \in 0..n}

\* Function bodies: common nodes, and at most one node of the rest of the pool.
NodeLists ==
    { nodes \in SeqsUpTo(NodePool, MaxNodes) :
        \A i, j \in 1..Len(nodes) :
            i # j => nodes[i] \in CommonNodes \/ nodes[j] \in CommonNodes }

\* (c, f) of Function.high_level_calls
call_alias == <<[name |-> "AddressAliasHelper"], [name |-> "applyL1ToL2Alias"]>>
call_undo == <<[name |-> "AddressAliasHelper"], [name |-> "undoL1ToL2Alias"]>>
call_helper == <<[name |-> "Other"], [name |-> "helper"]>>
CallLists == SeqsUpTo({call_alias, call_undo, call_helper}, MaxCalls)

Function(name, calls, nodes) ==
    [name |-> name, high_level_calls |-> calls, nodes |-> nodes]
Contract(name, functions) == [name |-> name, functions |-> functions]

DepositFunctions ==
    { Function("depositTransaction", calls, nodes) : calls \in CallLists, nodes \in NodeLists }

f_other == Function("donateETH", <<call_helper>>, <<TheCheck>>)
f_good == Function("depositTransaction", <<call_alias>>, <<TheCheck>>)
f_calls == Function("depositTransaction", <<call_alias, call_helper>>, <<TheCheck>>)
f_nocheck == Function("depositTransaction", <<call_alias>>, <<NotEqualCheck>>)
c_decoy == Contract("L2OutputOracle", <<f_good>>)

\* slither.contracts
Models ==
    { <<c_decoy, Contract("OptimismPortal", <<f_other, f>>)>> : f \in DepositFunctions }
    \cup { <<>>, <<c_decoy>>,
           <<Contract("OptimismPortal", <<>>)>>,
           <<Contract("OptimismPortal", <<f_other>>)>>,
           <<Contract("OptimismPortal", <<>>), Contract("OptimismPortal", <<f_good>>)>> }
    \cup { <<Contract("OptimismPortal", <<f, g>>), Contract("OptimismPortal", <<g>>)>> :
             f, g \in {f_good, f_calls, f_nocheck} }

\* Slither.get_contract_from_name
get_contract_from_name(contracts, name) == SelectSeq(contracts, LAMBDA c : c.name = name)

Unassigned == [name |-> "<unassigned>"]

Init ==
    /\ slither \in Models
    /\ pc = "start"
    /\ portal = Unassigned
    /\ deposit_function = Unassigned
    /\ high_level_calls = <<>>
    /\ found_creation_check = FALSE
    /\ node_index = 0
    /\ raised = NoException
    /\ stdout = <<>>

\* Lines 72-77.
GetContract ==
    /\ pc = "start"
    /\ stdout' = Append(stdout, "Running OptimismPortal.depositTransaction() test...")
    /\ LET discovered_contracts == get_contract_from_name(slither, "OptimismPortal") IN
       IF Len(discovered_contracts) < 1
       THEN /\ raised' = ContractNotFound
            /\ pc' = "done"
            /\ UNCHANGED portal
       ELSE /\ portal' = discovered_contracts[1]
            /\ pc' = "find_function"
            /\ UNCHANGED raised
    /\ UNCHANGED <<slither, deposit_function, high_level_calls, found_creation_check, node_index>>

\* Lines 80-82.
FindFunction ==
    /\ pc = "find_function"
    /\ LET named == SelectSeq(portal.functions, LAMBDA f : f.name = "depositTransaction") IN
       IF named = <<>>
       THEN /\ raised' = FunctionNotFound
            /\ pc' = "done"
            /\ UNCHANGED deposit_function
       ELSE /\ deposit_function' = named[1]
            /\ pc' = "check_calls"
            /\ UNCHANGED raised
    /\ UNCHANGED <<slither, portal, high_level_calls, found_creation_check, node_index, stdout>>

\* The call-set failure noted, the scan run all the same.
CheckCalls_NoAbort ==
    /\ pc = "check_calls"
    /\ high_level_calls' = FormatAll(deposit_function.high_level_calls)
    /\ raised' = IF ~CallsAsExpected(high_level_calls') THEN NewCallAdded ELSE raised
    /\ found_creation_check' = FALSE
    /\ node_index' = 1
    /\ pc' = "scan"
    /\ UNCHANGED <<slither, portal, deposit_function, stdout>>

\* Lines 87-93.
CheckCalls ==
    /\ pc = "check_calls"
    /\ high_level_calls' = FormatAll(deposit_function.high_level_calls)
    /\ IF ~CallsAsExpected(high_level_calls')
       THEN /\ raised' = NewCallAdded
            /\ pc' = "done"
            /\ UNCHANGED <<found_creation_check, node_index>>
       ELSE /\ found_creation_check' = FALSE
            /\ node_index' = 1
            /\ pc' = "scan"
            /\ UNCHANGED raised
    /\ UNCHANGED <<slither, portal, deposit_function, stdout>>

\* The flag assigned by every node, so that the last node decides.
FoundAfter_LastNodeDecides(found, node) == NodeMatches(node)

\* Lines 95-171: found_creation_check after the loop body ran on `node`.
FoundAfter(found, node) == IF NodeMatches(node) THEN TRUE ELSE found

\* Lines 94-171: one iteration of the loop.
ScanNode ==
    /\ pc = "scan"
    /\ node_index <= Len(deposit_function.nodes)
    /\ found_creation_check' =
           FoundAfter(found_creation_check, deposit_function.nodes[node_index])
    /\ node_index' = node_index + 1
    /\ UNCHANGED <<slither, pc, portal, deposit_function, high_level_calls, raised, stdout>>

\* Lines 174-178.
Finish ==
    /\ pc = "scan"
    /\ node_index > Len(deposit_function.nodes)
    /\ IF ~found_creation_check
       THEN raised' = CheckNotFound /\ UNCHANGED stdout
       ELSE stdout' = Append(stdout, "Test passed") /\ UNCHANGED raised
    /\ pc' = "done"
    /\ UNCHANGED <<slither, portal, deposit_function, high_level_calls,
                   found_creation_check, node_index>>

Next == GetContract \/ FindFunction \/ CheckCalls \/ ScanNode \/ Finish

Spec == Init /\ [][Next]_vars

(***************************************************************************)
(* What the claims speak of, stated apart from the code's own tests.       *)
(***************************************************************************)
Range(seq) == {seq[i] : i \in 1..Len(seq)}
Count(x, seq) == Cardinality({i \in 1..Len(seq) : seq[i] = x})
SameMultiset(a, b) == \A x \in Range(a) \cup Range(b) : Count(x, a) = Count(x, b)
DiffEntries(a, b) == {x \in Range(a) \cup Range(b) : Count(x, a) # Count(x, b)}

Contains(text, part) ==
    \E i \in 1..(Len(text) - Len(part) + 1) : SubSeq(text, i, i + Len(part) - 1) = part
Mentions(exception, part) ==
    \E k \in 1..Len(exception.args) : Contains(exception.args[k], part)

FunctionResolved == deposit_function # Unassigned
Nodes == deposit_function.nodes
Examined == 1..(node_index - 1)
Passed == raised = NoException /\ stdout # <<>> /\ stdout[Len(stdout)] = "Test passed"

IsLocalNamed(v, name) == v.kind = "LocalVariable" /\ v.name = name

\* The == of the pattern: the converted zero on the right and _to on the left, or,
\* with anySide, also the other way round.
ComparesToWithZero(compare, convert, anySide) ==
    \/ /\ compare.variable_right.id = convert.lvalue.id
       /\ IsLocalNamed(compare.variable_left, "_to")
    \/ /\ anySide
       /\ compare.variable_left.id = convert.lvalue.id
       /\ IsLocalNamed(compare.variable_right, "_to")

\* The if-statement of the pattern, but for the operands of its ==.
PatternBut(node) ==
    /\ node.type = "IF"
    /\ Len(node.irs) >= 1
    /\ node.irs[1].ir = "Condition"
    /\ IsLocalNamed(node.irs[1].value, "_isCreation")
    /\ Len(node.sons) = 2
    /\ node.sons[1].type = "EXPRESSION"
    /\ node.sons[2].type = "ENDIF"
    /\ LET ops == node.sons[1].irs IN
       /\ Len(ops) = 3
       /\ ops[1].ir = "TypeConversion"
       /\ ops[1].variable.kind = "Constant"
       /\ ops[1].variable.value = 0
       /\ ops[1].type.name = "address"
       /\ ops[2].ir = "Binary"
       /\ ops[2].type = "EQUAL"
       /\ ops[3].ir = "SolidityCall"
       /\ ops[3].function.full_name = "require(bool,string)"
       /\ Len(ops[3].arguments) >= 1
       /\ ops[3].arguments[1].id = ops[2].lvalue.id

Pattern(node, anySide) ==
    /\ PatternBut(node)
    /\ ComparesToWithZero(node.sons[1].irs[2], node.sons[1].irs[1], anySide)

(***************************************************************************)
(* C1.  The call-set check passes exactly when the rendered calls and the  *)
(* expected calls are equal as multisets: order is ignored, a missing, an  *)
(* extra or a repeated entry raises the call-set error.                    *)
(***************************************************************************)
\* C1: once the calls are checked, no call-set error iff the rendered calls equal
\* the expected ones as multisets.
C1_CallSetIsMultisetEquality ==
    (pc \in {"scan", "done"} /\ FunctionResolved) =>
        /\ Len(high_level_calls) = Len(deposit_function.high_level_calls)
        /\ (raised # NewCallAdded) <=> SameMultiset(high_level_calls, ExpectedCalls)

\* The expected call made twice is refused.
C1_Witness ==
    /\ pc = "done"
    /\ raised = NewCallAdded
    /\ high_level_calls = <<ExpectedCalls[1], ExpectedCalls[1]>>

(***************************************************************************)
(* C2.  The sub-checks run in the order contract, function, call set,      *)
(* pattern, and the first that fails gives the reason; after a call-set    *)
(* mismatch no node is examined, whether or not the pattern is there.      *)
(***************************************************************************)
EarliestFailure ==
    LET contracts == SelectSeq(slither, LAMBDA c : c.name = "OptimismPortal") IN
    IF contracts = <<>> THEN ContractNotFound
    ELSE LET functions ==
                 SelectSeq(contracts[1].functions, LAMBDA f : f.name = "depositTransaction") IN
         IF functions = <<>> THEN FunctionNotFound
         ELSE IF ~SameMultiset(FormatAll(functions[1].high_level_calls), ExpectedCalls)
              THEN NewCallAdded
         ELSE IF ~\E i \in 1..Len(functions[1].nodes) : NodeMatches(functions[1].nodes[i])
              THEN CheckNotFound
         ELSE NoException

\* C2: no error before the end; at the end the error of the earliest failing
\* sub-check, and nothing of the later sub-checks has been run.
C2_FirstFailingCheckReported ==
    /\ pc # "done" => raised = NoException
    /\ pc = "done" =>
        /\ raised = EarliestFailure
        /\ raised = ContractNotFound => portal = Unassigned
        /\ raised \in {ContractNotFound, FunctionNotFound} =>
               deposit_function = Unassigned /\ high_level_calls = <<>>
        /\ raised \in {ContractNotFound, FunctionNotFound, NewCallAdded} =>
               node_index = 0 /\ ~found_creation_check

\* A call-set failure of a function whose second node holds the pattern: no node
\* has been examined.
C2_Witness ==
    /\ pc = "done"
    /\ raised = NewCallAdded
    /\ node_index = 0
    /\ Len(Nodes) >= 2
    /\ NodeMatches(Nodes[2])

(***************************************************************************)
(* C3.  The pass scenario: the resolved function calls only                *)
(* AddressAliasHelper.applyL1ToL2Alias and holds the if-statement of the   *)
(* pattern; the run prints "Test passed" and raises nothing.               *)
(***************************************************************************)
PassScenario(anySide) ==
    /\ pc = "done"
    /\ FunctionResolved
    /\ deposit_function.high_level_calls = <<call_alias>>
    /\ \E i \in 1..Len(Nodes) : Pattern(Nodes[i], anySide)

\* C3 as claimed: the comparison of the converted zero with _to, on either side,
\* makes the run pass.
C3_PassScenario_AnySide == PassScenario(TRUE) => Passed

\* C3 as amended: with _to the left operand and the converted zero the right one,
\* the run passes.
C3_PassScenario == PassScenario(FALSE) => Passed

C3_Witness ==
    /\ PassScenario(FALSE)
    /\ Passed
    /\ Len(Nodes) >= 2
    /\ ~Pattern(Nodes[Len(Nodes)], TRUE)

(***************************************************************************)
(* C4.  With contract and function found and the calls as expected, a      *)
(* function without the pattern fails; the claim is about the kind of      *)
(* that error.                                                             *)
(***************************************************************************)
PatternMissing ==
    /\ pc = "done"
    /\ FunctionResolved
    /\ SameMultiset(high_level_calls, ExpectedCalls)
    /\ \A i \in 1..Len(Nodes) : ~Pattern(Nodes[i], FALSE)

C5_CallSetErrorCarriesDifference ==
    (pc = "done" /\ FunctionResolved /\ ~SameMultiset(high_level_calls, ExpectedCalls)) =>
        \A entry \in DiffEntries(high_level_calls, ExpectedCalls) : Mentions(raised, entry)

(***************************************************************************)
(* C6.  A node is rejected when its children are not exactly               *)
(* [EXPRESSION, END-IF] or its EXPRESSION child does not hold exactly 3    *)
(* IRs, also when the three required IRs are a subsequence of a longer     *)
(* list: as long as every node examined is of that kind, the flag is not   *)
(* set, and the run ends with the missing-check error.                     *)
(***************************************************************************)
ShapeOff(node) ==
    IF Len(node.sons) # 2 THEN TRUE
    ELSE \/ node.sons[1].type # "EXPRESSION"
         \/ node.sons[2].type # "ENDIF"
         \/ Len(node.sons[1].irs) # 3

\* C6: while every node examined has other children or another number of IRs, the
\* flag stays unset, and the run ends with the missing-check error.
C6_StrictShapeAndLength ==
    (pc \in {"scan", "done"} /\ \A i \in Examined : ShapeOff(Nodes[i])) =>
        /\ ~found_creation_check
        /\ (pc = "done" /\ node_index > 0) => raised = CheckNotFound

\* The three IRs in order with an unrelated one between them.
C6_Witness ==
    /\ pc = "done"
    /\ raised = CheckNotFound
    /\ Len(Nodes) >= 1
    /\ node_index = Len(Nodes) + 1
    /\ \A i \in 1..Len(Nodes) : ShapeOff(Nodes[i])
    /\ Nodes[Len(Nodes)] = Guarded(<<ir_convert, ir_other, ir_compare, ir_require>>)

(***************************************************************************)
(* C7.  Cross-references go by identity: the flag is set only by a node    *)
(* whose == has as right operand the very temporary the conversion at      *)
(* position 1 produced, and whose require has as first argument the very   *)
(* temporary that == produced; another temporary holding the same value    *)
(* does not do.                                                            *)
(***************************************************************************)
KeepsIdentity(node) ==
    /\ Len(node.sons) >= 1
    /\ LET ops == node.sons[1].irs IN
       /\ Len(ops) >= 3
       /\ ops[1].ir = "TypeConversion"
       /\ ops[2].ir = "Binary"
       /\ ops[3].ir = "SolidityCall"
       /\ Len(ops[3].arguments) >= 1
       /\ ops[2].variable_right.id = ops[1].lvalue.id
       /\ ops[3].arguments[1].id = ops[2].lvalue.id

\* C7: while no node examined keeps both cross-references by identity, the flag
\* stays unset.
C7_CrossReferencesByIdentity ==
    (pc \in {"scan", "done"} /\ \A i \in Examined : ~KeepsIdentity(Nodes[i])) =>
        ~found_creation_check

\* address(0) converted a second time (TMP_2, by the node before) and compared with _to.
C7_Witness ==
    /\ pc = "done"
    /\ raised = CheckNotFound
    /\ Nodes = <<PlainNode,
                 Guarded(<<ir_convert, Binary(TMP_1, v_to, "EQUAL", TMP_2), ir_require>>)>>
    /\ TMP_2.holds = TMP_0.holds
    /\ PlainNode.irs[1].lvalue = TMP_2

(***************************************************************************)
(* C8.  Nodes that are no candidates (no IF, no IR, a first IR that is no  *)
(* Condition, a condition that is not the local `_isCreation`) are         *)
(* skipped: the scan goes on without an error, and when all nodes are of   *)
(* that kind the one failure is the missing-check error after the last.    *)
(***************************************************************************)
NotCandidate(node) ==
    \/ node.type # "IF"
    \/ Len(node.irs) = 0
    \/ node.irs[1].ir # "Condition"
    \/ ~IsLocalNamed(node.irs[1].value, "_isCreation")

\* C8: while every node examined is no candidate, the flag stays unset and no error
\* is raised; the run ends, all nodes examined, with the missing-check error.
C8_NonCandidatesAreSkipped ==
    (pc \in {"scan", "done"} /\ node_index > 0
        /\ \A i \in Examined : NotCandidate(Nodes[i])) =>
        /\ ~found_creation_check
        /\ pc = "scan" => raised = NoException
        /\ pc = "done" => raised = CheckNotFound /\ node_index = Len(Nodes) + 1

\* A statement that is no if, then the check guarded by `_IsCreation`.
C8_Witness ==
    /\ pc = "done"
    /\ raised = CheckNotFound
    /\ node_index = Len(Nodes) + 1
    /\ Nodes = <<PlainNode, If(<<Condition(v_IsCreation)>>, TheCheck.sons)>>

(***************************************************************************)
(* C9.  The Binary at position 2: which operand has to be the converted    *)
(* zero and which the local `_to`.                                         *)
(***************************************************************************)
\* C9 as claimed: a node of the pattern sets the flag with the operands of == on
\* either side.
C9_BinaryMatchesOnEitherSide ==
    (pc \in {"scan", "done"} /\ \E i \in Examined : Pattern(Nodes[i], TRUE)) =>
        found_creation_check

\* C9 as amended: a node of the pattern sets the flag when the right operand of ==
\* is the converted zero and the left one is `_to`, and not with them exchanged.
C9_BinaryMatchesRightZeroLeftTo ==
    (pc \in {"scan", "done"} /\ node_index > 0) =>
        /\ (\E i \in Examined : Pattern(Nodes[i], FALSE)) => found_creation_check
        /\ (\A i \in Examined : PatternBut(Nodes[i]) =>
                ~ComparesToWithZero(Nodes[i].sons[1].irs[2], Nodes[i].sons[1].irs[1], FALSE))
             => ~found_creation_check

\* address(0) == _to examined and passed over, then _to == address(0) accepted.
C9_Witness ==
    /\ pc = "scan"
    /\ node_index = 3
    /\ Nodes[1] = SwappedCheck
    /\ Pattern(Nodes[2], FALSE)
    /\ found_creation_check

(***************************************************************************)
(* C10.  The structural check succeeds exactly when some node of the       *)
(* function matches the pattern in full: the flag is the disjunction over  *)
(* the nodes examined so far, whatever their order, a match is not undone  *)
(* by the nodes before or after it, and scanning on after a match gives    *)
(* what returning at once would give.                                      *)
(***************************************************************************)
\* C10: the flag is TRUE iff some node examined matches in full; the run passes iff
\* some node of the function does, and fails with the missing-check error iff none.
C10_SucceedsIffSomeNodeMatches ==
    (pc \in {"scan", "done"} /\ node_index > 0) =>
        /\ found_creation_check <=> \E i \in Examined : Pattern(Nodes[i], FALSE)
        /\ pc = "done" =>
            /\ node_index = Len(Nodes) + 1
            /\ Passed <=> \E i \in 1..Len(Nodes) : Pattern(Nodes[i], FALSE)
            /\ raised = CheckNotFound <=> ~\E i \in 1..Len(Nodes) : Pattern(Nodes[i], FALSE)

\* A match followed by a near miss.
C10_Witness ==
    /\ pc = "done"
    /\ Passed
    /\ Len(Nodes) >= 2
    /\ Pattern(Nodes[1], FALSE)
    /\ PatternBut(Nodes[Len(Nodes)])
    /\ ~Pattern(Nodes[Len(Nodes)], FALSE)

====
